---- MODULE Spec2Model ----
(***************************************************************************)
(* Model of the bingo card generator of src-tauri/src/lib.rs:              *)
(* generate_cards (input validation) and generate_bingo_cards (weighted    *)
(* selection of 16 numbers, shuffle, line-conflict check, attempt search   *)
(* that keeps the attempt with the lowest variance).                       *)
(*                                                                         *)
(* Random numbers.  rng.gen::<f64>() returns a value of [0, 1), 0.0        *)
(* included; the model draws it as a fraction k / RandDen.  Weights are    *)
(* multiples of 0.1, so all amounts of the weighted draw are integers in   *)
(* units of 1/(10 * RandDen).  One card-construction try reads a script    *)
(* <<kFirst, kRest, kShuf>> of the random generator: the fraction of its   *)
(* first draw, the fraction of each later draw, and the fraction behind    *)
(* the index draws of the shuffle.                                         *)
(***************************************************************************)
EXTENDS Integers, Sequences, FiniteSets, TLC

(* ---- bounds of the model ---- *)
\* num_cards is drawn from 0 .. MaxCards
MaxCards == 2
\* max_attempts handed to generate_bingo_cards (the program passes 50)
MaxAttempts == 2
\* card-construction tries per slot (the program's MAX_CARD_ATTEMPTS is 1000)
MaxCardAttempts == 2
\* the random generator follows one of the first NumScripts scripts of Scripts
NumScripts == 4

(* ---- program constants ---- *)
CARD_CELLS == 16
MIN_RANGE == 16

VARIABLES
    num_cards, min_num, max_num,   \* arguments of generate_cards
    pc,                            \* position in the program
    attempt,                       \* _attempt of the loop of line 78
    cards, used_lines, number_counts, success,   \* per-attempt locals
    card_id, card_found, card_attempts,          \* per-slot locals
    best_result, best_variance,    \* best attempt so far
    result,                        \* the GenerationResult returned
    succeeded,                     \* history: number of attempts that completed all slots
    lowest,                        \* history: the first of them with the lowest variance
    core_ran,                      \* history: generate_bingo_cards was entered
    try_selected, try_counts,      \* selected and temp_counts of one card try (lines 94-95)
    try_draws, try_rnd,            \* draws made in the try; the fractions they read
    the_card, the_lines,           \* card and lines of lines 133 and 141
    range, total_cells,            \* line 241 and line 71
    arith                          \* outcome of the integer arithmetic: "ok", "wrapped" or "panicked"

\* the variables of the specifications that follow single steps which Spec
\* takes inside one action: the draws of a card try (DrawSpec), the line
\* extraction (LineSpec) and the integer arithmetic at machine width (ArithSpec)
stepVars == <<try_selected, try_counts, try_draws, try_rnd, the_card, the_lines, range, total_cells, arith>>

vars == <<num_cards, min_num, max_num, pc, attempt, cards, used_lines,
          number_counts, success, card_id, card_found, card_attempts,
          best_result, best_variance, result, succeeded, lowest, core_ran,
          try_selected, try_counts, try_draws, try_rnd, the_card, the_lines, range, total_cells, arith>>

(* ---- random generator ---- *)
\* denominator of the random fractions k / RandDen
RandDen == 2

\* <<kFirst, kRest, kShuf>>, numerators over RandDen
Scripts ==
    << <<1, 1, 1>>,    \* 16 distinct numbers
       <<1, 1, 0>>,    \* the same numbers, shuffled otherwise
       <<0, 0, 0>>,    \* every draw returns 0.0
       <<1, 0, 0>>,    \* every draw but the first returns 0.0
       <<0, 1, 1>>,    \* only the first draw returns 0.0
       <<0, 1, 0>>,
       <<1, 0, 1>>,
       <<0, 0, 1>> >>

\* the fractions <<kFirst, kRest>> of the weighted draws of the scripts in use
DrawsOfScripts == { <<Scripts[sc][1], Scripts[sc][2]>> : sc \in 1..NumScripts }

\* the scripts in use whose weighted draws read these fractions: their 16
\* numbers are the same, and are computed once
ScriptsWith(draws) ==
    { sc \in 1..NumScripts : <<Scripts[sc][1], Scripts[sc][2]>> = draws }

(* ---- input domains ---- *)
\* valid ranges: 2..17 (16 numbers) and 2..19 (18 numbers); 5..19 holds 15 numbers
MinNums == {2, 5}
MaxNums == {3, 10, 17, 19}

(* ---- messages ---- *)
MsgMaxLtMin == "Maximum number must be greater than or equal to minimum number."
MsgRange == "Number range must be at least 16 to fill a 4x4 card."
MsgFailed == "Failed to generate valid bingo cards. Try adjusting parameters."
MsgSuccess(n) ==
    "Successfully generated " \o ToString(n) \o " bingo cards with balanced distribution!"

\* Option::None of best_result
None == [some |-> FALSE, cards |-> <<>>, counts |-> <<>>]
Some(cs, counts) == [some |-> TRUE, cards |-> cs, counts |-> counts]
\* f64::MAX, the initial best_variance: larger than every variance
F64_MAX == [max |-> TRUE, num |-> 0]
\* a variance, held exactly as num / num_range^2
F64(num) == [max |-> FALSE, num |-> num]
\* the value of `result` before generate_cards has returned
NoResult == [cards |-> <<>>, number_distribution |-> <<>>, success |-> FALSE, message |-> ""]

(* ---- helpers ---- *)
\* the element of a singleton set; The({e(v) : v \in {x}}) is e(x), with x
\* evaluated once
The(S) == CHOOSE r \in S : TRUE

RECURSIVE SumTo(_, _)
SumTo(s, n) == IF n = 0 THEN 0 ELSE s[n] + SumTo(s, n - 1)

\* iter().sum()
SumSeq(s) == SumTo(s, Len(s))

\* Vec::contains
Contains(s, x) == \E i \in 1..Len(s) : s[i] = x

Max2(a, b) == IF a >= b THEN a ELSE b

\* (min_num..=max_num).collect()
numbersOf(lo, hi) == [i \in 1..Max2(hi - lo + 1, 0) |-> lo + i - 1]

(* ---- Line Extractor ---- *)
RECURSIVE InsertSorted(_, _)
InsertSorted(s, x) ==
    IF s = <<>> THEN <<x>>
    ELSE IF x < Head(s) THEN <<x>> \o s
    ELSE <<Head(s)>> \o InsertSorted(Tail(s), x)

\* as SortAsc, but the line is left in the order of the grid
SortAscSkipped(s) == s

RECURSIVE SortAsc(_)
\* Vec::sort, ascending
SortAsc(s) ==
    IF s = <<>> THEN <<>>
    ELSE The({InsertSorted(rest, Head(s)) : rest \in {SortAsc(Tail(s))}})

\* as get_winning_lines, but the anti-diagonal reads the cells of the main diagonal
get_winning_lines_one_diagonal(card) ==
    [r \in 1..4 |-> SortAsc(card[r])]
    \o [c \in 1..4 |-> SortAsc([r \in 1..4 |-> card[r][c]])]
    \o << SortAsc([i \in 1..4 |-> card[i][i]]) >>
    \o << SortAsc([i \in 1..4 |-> card[i][i]]) >>

\* card is a sequence of 4 rows of 4 cells; index 1 here is index 0 of the code
get_winning_lines(card) ==
    [r \in 1..4 |-> SortAsc(card[r])]
    \o [c \in 1..4 |-> SortAsc([r \in 1..4 |-> card[r][c]])]
    \o << SortAsc([i \in 1..4 |-> card[i][i]]) >>
    \o << SortAsc([i \in 1..4 |-> card[i][5 - i]]) >>

RECURSIVE JoinComma(_)
JoinComma(strs) ==
    IF strs = <<>> THEN ""
    ELSE IF Len(strs) = 1 THEN Head(strs)
    ELSE Head(strs) \o "," \o JoinComma(Tail(strs))

line_to_key(line) == JoinComma([i \in 1..Len(line) |-> ToString(line[i])])

(* ---- weighted selection of the 16 numbers of a card (lines 93-125) ---- *)
\* as current_weights, but a number already chosen keeps its weight
current_weights_keep_chosen(temp_counts, selected, nums, target) ==
    [i \in 1..Len(temp_counts) |-> Max2((target - temp_counts[i]) * 10 + 100, 1)]

\* weights in tenths: (diff + 10.0).max(0.1), or 0.0 for a number already selected
current_weights(temp_counts, selected, nums, target) ==
    The({ [i \in 1..Len(temp_counts) |->
              IF nums[i] \in chosen THEN 0
              ELSE Max2((target - temp_counts[i]) * 10 + 100, 1)]
          : chosen \in {{selected[k] : k \in 1..Len(selected)}} })

RECURSIVE Scan(_, _, _)
\* the cumulative scan of lines 117-124; rv and the weights are in units of
\* 1/(10 * RandDen); the index pushed (1-based), or 0 when the scan ends
\* without a selection
Scan(w, rv, i) ==
    IF i > Len(w) THEN 0
    ELSE IF rv - w[i] * RandDen <= 0 THEN i
    ELSE Scan(w, rv - w[i] * RandDen, i + 1)

\* one pass of the loop of line 96, for draw number j, which reads the fraction
\* kFirst/RandDen (j = 0) or kRest/RandDen (j > 0):
\* <<selected, temp_counts, j, whether the loop is left by the break of line 113>>
DrawStep(selected, temp_counts, j, nums, target, kFirst, kRest) ==
    The({
        IF wt[2] <= 0 THEN <<selected, temp_counts, j, TRUE>>
        ELSE The({
            IF i = 0
            THEN <<selected, temp_counts, j + 1, FALSE>>
            ELSE <<Append(selected, nums[i]), [temp_counts EXCEPT ![i] = @ + 1], j + 1, FALSE>>
            : i \in {Scan(wt[1], (IF j = 0 THEN kFirst ELSE kRest) * wt[2], 1)} })
        : wt \in {The({ <<w, SumSeq(w)>>
                        : w \in {current_weights(temp_counts, selected, nums, target)} })} })

RECURSIVE SelectNumbers(_, _, _, _, _, _, _)
\* the loop of lines 96-125: the numbers selected when it ends
SelectNumbers(selected, temp_counts, j, nums, target, kFirst, kRest) ==
    IF Len(selected) >= CARD_CELLS THEN selected
    ELSE The({
        IF nx[4] THEN nx[1]
        ELSE SelectNumbers(nx[1], nx[2], nx[3], nums, target, kFirst, kRest)
        : nx \in {DrawStep(selected, temp_counts, j, nums, target, kFirst, kRest)} })

(* ---- shuffle (line 132) ---- *)
Swap(s, a, b) == [s EXCEPT ![a] = s[b], ![b] = s[a]]

RECURSIVE FisherYates(_, _, _)
\* slice::shuffle: for i in (1..len).rev() { swap(i, index drawn from 0..=i) };
\* the index drawn is floor((kShuf / RandDen) * (i + 1)); i is 0-based
FisherYates(s, i, kShuf) ==
    IF i < 1 THEN s
    ELSE The({ FisherYates(swapped, i - 1, kShuf) :
               swapped \in {Swap(s, i + 1, ((kShuf * (i + 1)) \div RandDen) + 1)} })

Shuffle(s, kShuf) == FisherYates(s, Len(s) - 1, kShuf)

\* lines 133-138
Grid(selected) == [r \in 1..4 |-> [c \in 1..4 |-> selected[4 * (r - 1) + c]]]

(* ---- conflict check and accept step (lines 140-169) ---- *)
\* lines 154-156: the keys inserted for a card's lines
KeysOf(lines) == {line_to_key(lines[i]) : i \in 1..Len(lines)}

\* as has_conflict, but the flag is never set
has_conflict_never(lines, used) == FALSE

\* lines 142-150
has_conflict(lines, used) == \E i \in 1..Len(lines) : line_to_key(lines[i]) \in used

\* as AddCounts, but the count is set to 1 instead of incremented
AddCountsAssign(counts, selected, lo) ==
    [i \in 1..Len(counts) |-> IF Contains(selected, lo + i - 1) THEN 1 ELSE counts[i]]

RECURSIVE AddCounts(_, _, _)
\* lines 159-162
AddCounts(counts, selected, lo) ==
    IF selected = <<>> THEN counts
    ELSE AddCounts([counts EXCEPT ![Head(selected) - lo + 1] = @ + 1], Tail(selected), lo)

\* as CardIdOf, but 0-based
CardIdZeroBased(slot) == slot

\* line 165
CardIdOf(slot) == slot + 1

(* ---- variance (lines 180-188), exactly: VarNum / num_range^2 ---- *)
VarNum(counts) ==
    LET n == Len(counts)
        s == SumSeq(counts)
    IN  n * SumSeq([i \in 1..n |-> counts[i] * counts[i]]) - s * s

\* as VarLess, with the comparison turned around
VarLessFlipped(num, best) == best.max \/ num > best.num

\* variance < best_variance (line 190)
VarLess(num, best) == best.max \/ num < best.num

\* as GoodEnough, but no variance is low enough
GoodEnoughNever(counts) == FALSE

\* variance < 2.0 (line 196)
GoodEnough(counts) == VarNum(counts) < 2 * Len(counts) * Len(counts)

\* history only: num_range^3 times the population variance of the counts,
\* sum over n of (num_range * c_n - total)^2
Deviation(counts) ==
    LET n == Len(counts)
        total == SumSeq(counts)
    IN  SumSeq([i \in 1..n |-> (n * counts[i] - total) * (n * counts[i] - total)])

(* ---- result assembly (lines 202-226) ---- *)
\* as Distribution, but each count is paired with its position
DistributionByIndex(nums, counts) ==
    [i \in 1..(IF Len(nums) <= Len(counts) THEN Len(nums) ELSE Len(counts)) |->
        <<i, counts[i]>>]

\* lines 204-208: numbers.iter().zip(counts.iter())
Distribution(nums, counts) ==
    [i \in 1..(IF Len(nums) <= Len(counts) THEN Len(nums) ELSE Len(counts)) |->
        <<nums[i], counts[i]>>]

SuccessResult(best, numbers, n) ==
    [cards |-> best.cards,
     number_distribution |-> Distribution(numbers, best.counts),
     success |-> TRUE,
     message |-> MsgSuccess(n)]

FailureResult(msg) ==
    [cards |-> <<>>, number_distribution |-> <<>>, success |-> FALSE, message |-> msg]

(* ---- state machine ---- *)
numbers == numbersOf(min_num, max_num)
num_range == Len(numbers)
\* lines 71-72
target_per_number == (CARD_CELLS * num_cards) \div num_range

\* the step variables at rest
StepVarsIdle ==
    /\ try_selected = <<>>
    /\ try_counts = <<>>
    /\ try_draws = 0
    /\ try_rnd = <<0, 0>>
    /\ the_card = <<>>
    /\ the_lines = <<>>
    /\ range = 0
    /\ total_cells = 0
    /\ arith = "ok"

Init ==
    /\ num_cards \in 0..MaxCards
    /\ min_num \in MinNums
    /\ max_num \in MaxNums
    /\ pc = "start"
    /\ attempt = 0
    /\ cards = <<>>
    /\ used_lines = {}
    /\ number_counts = <<>>
    /\ success = TRUE
    /\ card_id = 0
    /\ card_found = FALSE
    /\ card_attempts = 0
    /\ best_result = None
    /\ best_variance = F64_MAX
    /\ result = NoResult
    /\ succeeded = 0
    /\ lowest = None
    /\ core_ran = FALSE
    /\ StepVarsIdle

\* line 241
RangeOf(lo, hi) == hi - lo + 1

\* line 232
MaxBelowMin(lo, hi) == hi < lo

\* as RangeTooSmall, but max_num is compared instead of the range
RangeTooSmallByMax(lo, hi) == hi < MIN_RANGE

\* line 242
RangeTooSmall(lo, hi) == RangeOf(lo, hi) < MIN_RANGE

\* generate_cards, lines 232-239
RejectMaxLtMin ==
    /\ pc = "start"
    /\ MaxBelowMin(min_num, max_num)
    /\ result' = FailureResult(MsgMaxLtMin)
    /\ pc' = "done"
    /\ UNCHANGED <<num_cards, min_num, max_num, attempt, cards, used_lines,
                   number_counts, success, card_id, card_found, card_attempts,
                   best_result, best_variance, succeeded, lowest, core_ran>>
    /\ UNCHANGED stepVars

\* generate_cards, lines 241-249
RejectRange ==
    /\ pc = "start"
    /\ ~MaxBelowMin(min_num, max_num)
    /\ RangeTooSmall(min_num, max_num)
    /\ result' = FailureResult(MsgRange)
    /\ pc' = "done"
    /\ UNCHANGED <<num_cards, min_num, max_num, attempt, cards, used_lines,
                   number_counts, success, card_id, card_found, card_attempts,
                   best_result, best_variance, succeeded, lowest, core_ran>>
    /\ UNCHANGED stepVars

\* generate_cards, line 251, and generate_bingo_cards, lines 66-76
EnterCore ==
    /\ pc = "start"
    /\ ~MaxBelowMin(min_num, max_num)
    /\ ~RangeTooSmall(min_num, max_num)
    /\ core_ran' = TRUE
    /\ best_result' = None
    /\ best_variance' = F64_MAX
    /\ attempt' = 0
    /\ pc' = "attempt_loop"
    /\ UNCHANGED <<num_cards, min_num, max_num, cards, used_lines, number_counts,
                   success, card_id, card_found, card_attempts, result, succeeded, lowest>>
    /\ UNCHANGED stepVars

\* lines 78-82: one more attempt starts with fresh locals
BeginAttempt ==
    /\ pc = "attempt_loop"
    /\ attempt < MaxAttempts
    /\ cards' = <<>>
    /\ used_lines' = {}
    /\ number_counts' = [i \in 1..num_range |-> 0]
    /\ success' = TRUE
    /\ card_id' = 0
    /\ pc' = "slot_loop"
    /\ UNCHANGED <<num_cards, min_num, max_num, attempt, card_found, card_attempts,
                   best_result, best_variance, result, succeeded, lowest, core_ran>>
    /\ UNCHANGED stepVars

\* lines 84-87: the next card slot starts
BeginSlot ==
    /\ pc = "slot_loop"
    /\ card_id < num_cards
    /\ card_found' = FALSE
    /\ card_attempts' = 0
    /\ pc' = "try_loop"
    /\ UNCHANGED <<num_cards, min_num, max_num, attempt, cards, used_lines,
                   number_counts, success, card_id, best_result, best_variance,
                   result, succeeded, lowest, core_ran>>
    /\ UNCHANGED stepVars

\* as SuccessAfterSlot, but a slot without a card leaves success as it was
SuccessAfterSlotKept(ok, found) == ok

\* as SuccessAfterSlot, but the attempt goes on as a success
SuccessAfterSlotTrue(ok, found) == TRUE

\* lines 172-173: success after the while loop of a slot
SuccessAfterSlot(ok, found) == ok /\ found

\* the for loop of line 78 moves on to the next attempt
NextAttempt(a) == a + 1

\* as WhileCond, but without the budget of tries
WhileCondNoBudget(found, tries) == ~found

\* line 89
WhileCond(found, tries) == ~found /\ tries < MaxCardAttempts

\* lines 89-170: one pass of the while loop, a card-construction try
CardTry ==
    /\ pc = "try_loop"
    /\ WhileCond(card_found, card_attempts)
    /\ card_attempts' = card_attempts + 1
    /\ \E draws \in DrawsOfScripts, nums \in {numbers} :
       \E drawn \in {SelectNumbers(<<>>, number_counts, 0, nums, target_per_number,
                                    draws[1], draws[2])} :
       \E sc \in ScriptsWith(draws) :
         IF Len(drawn) # CARD_CELLS
         THEN UNCHANGED <<cards, used_lines, number_counts, card_found>>
         ELSE \E selected \in {Shuffle(drawn, Scripts[sc][3])} :
              \E card \in {Grid(selected)} :
              \E lines \in {get_winning_lines(card)} :
                IF has_conflict(lines, used_lines)
                THEN UNCHANGED <<cards, used_lines, number_counts, card_found>>
                ELSE /\ used_lines' = used_lines \cup KeysOf(lines)
                     /\ number_counts' = AddCounts(number_counts, selected, min_num)
                     /\ cards' = Append(cards, [id |-> CardIdOf(card_id), cells |-> card])
                     /\ card_found' = TRUE
    /\ UNCHANGED <<num_cards, min_num, max_num, pc, attempt, success, card_id,
                   best_result, best_variance, result, succeeded, lowest, core_ran>>
    /\ UNCHANGED stepVars

\* the while loop ends with card_found: on to the next slot
SlotFound ==
    /\ pc = "try_loop"
    /\ ~WhileCond(card_found, card_attempts)
    /\ card_found
    /\ card_id' = card_id + 1
    /\ card_found' = FALSE
    /\ card_attempts' = 0
    /\ pc' = "slot_loop"
    /\ UNCHANGED <<num_cards, min_num, max_num, attempt, cards, used_lines,
                   number_counts, success, best_result, best_variance, result,
                   succeeded, lowest, core_ran>>
    /\ UNCHANGED stepVars

\* lines 172-175: no card within the budget, the attempt fails
SlotFailed ==
    /\ pc = "try_loop"
    /\ ~WhileCond(card_found, card_attempts)
    /\ ~card_found
    /\ success' = SuccessAfterSlot(success, card_found)
    /\ card_attempts' = 0
    /\ pc' = "attempt_end"
    /\ UNCHANGED <<num_cards, min_num, max_num, attempt, cards, used_lines,
                   number_counts, card_id, card_found, best_result, best_variance,
                   result, succeeded, lowest, core_ran>>
    /\ UNCHANGED stepVars

\* the for loop of line 84 ends after its last slot
SlotsDone ==
    /\ pc = "slot_loop"
    /\ card_id >= num_cards
    /\ pc' = "attempt_end"
    /\ UNCHANGED <<num_cards, min_num, max_num, attempt, cards, used_lines,
                   number_counts, success, card_id, card_found, card_attempts,
                   best_result, best_variance, result, succeeded, lowest, core_ran>>
    /\ UNCHANGED stepVars

\* lines 178-199: the attempt completed all slots
AttemptSucceeded ==
    /\ pc = "attempt_end"
    /\ success
    /\ LET variance == VarNum(number_counts)
       IN  /\ IF VarLess(variance, best_variance)
              THEN /\ best_variance' = F64(variance)
                   /\ best_result' = Some(cards, number_counts)
              ELSE UNCHANGED <<best_variance, best_result>>
           /\ IF GoodEnough(number_counts)
              THEN pc' = "return" /\ attempt' = attempt
              ELSE pc' = "attempt_loop" /\ attempt' = NextAttempt(attempt)
    /\ succeeded' = succeeded + 1
    /\ lowest' = IF lowest.some /\ Deviation(lowest.counts) <= Deviation(number_counts)
                 THEN lowest
                 ELSE Some(cards, number_counts)
    /\ cards' = <<>>
    /\ used_lines' = {}
    /\ number_counts' = <<>>
    /\ card_id' = 0
    /\ UNCHANGED <<num_cards, min_num, max_num, success, card_found, card_attempts,
                   result, core_ran>>
    /\ UNCHANGED stepVars

\* line 178 with success = false: the attempt's locals are dropped
AttemptFailed ==
    /\ pc = "attempt_end"
    /\ ~success
    /\ attempt' = NextAttempt(attempt)
    /\ pc' = "attempt_loop"
    /\ cards' = <<>>
    /\ used_lines' = {}
    /\ number_counts' = <<>>
    /\ card_id' = 0
    /\ success' = TRUE
    /\ UNCHANGED <<num_cards, min_num, max_num, card_found, card_attempts,
                   best_result, best_variance, result, succeeded, lowest, core_ran>>
    /\ UNCHANGED stepVars

\* as ResultOf, but a best result without cards is reported as a failure
ResultOfNonEmpty(best, nums, n) ==
    IF best.some /\ best.cards # <<>> THEN SuccessResult(best, nums, n)
    ELSE FailureResult(MsgFailed)

\* lines 202-226
ResultOf(best, nums, n) ==
    IF best.some THEN SuccessResult(best, nums, n) ELSE FailureResult(MsgFailed)

ReturnResult ==
    /\ \/ pc = "return"
       \/ pc = "attempt_loop" /\ attempt >= MaxAttempts
    /\ result' = ResultOf(best_result, numbers, num_cards)
    /\ pc' = "done"
    /\ UNCHANGED <<num_cards, min_num, max_num, attempt, cards, used_lines,
                   number_counts, success, card_id, card_found, card_attempts,
                   best_result, best_variance, succeeded, lowest, core_ran>>
    /\ UNCHANGED stepVars

Next ==
    \/ RejectMaxLtMin
    \/ RejectRange
    \/ EnterCore
    \/ BeginAttempt
    \/ BeginSlot
    \/ CardTry
    \/ SlotFound
    \/ SlotFailed
    \/ SlotsDone
    \/ AttemptSucceeded
    \/ AttemptFailed
    \/ ReturnResult

Spec == Init /\ [][Next]_vars

\* the program runs to completion: it takes every step it can take
FairSpec == Spec /\ WF_vars(Next)

(* ---- vocabulary of the properties ---- *)
Done == pc = "done"

RangeSize == max_num - min_num + 1

\* the 16 cells of a card, row-major
CellSeq(card) == [p \in 1..16 |-> card.cells[((p - 1) \div 4) + 1][((p - 1) % 4) + 1]]

\* the positions (row-major, 1..16) of the 10 winning lines
LinePositions ==
    { <<1, 2, 3, 4>>, <<5, 6, 7, 8>>, <<9, 10, 11, 12>>, <<13, 14, 15, 16>>,
      <<1, 5, 9, 13>>, <<2, 6, 10, 14>>, <<3, 7, 11, 15>>, <<4, 8, 12, 16>>,
      <<1, 6, 11, 16>>, <<4, 7, 10, 13>> }

\* the canonical lines of a card: the values of each line, sorted
CanonLines(card) ==
    LET cs == CellSeq(card)
    IN  { SortAsc([k \in 1..4 |-> cs[pos[k]]]) : pos \in LinePositions }

\* the counts of the returned distribution
ResultCounts == [i \in 1..Len(result.number_distribution) |-> result.number_distribution[i][2]]

\* how many cells of the returned cards hold n
CellsHolding(n) ==
    Cardinality({ <<c, p>> \in (1..Len(result.cards)) \X (1..16) :
                    CellSeq(result.cards[c])[p] = n })

(* ---- C1 ---- *)
\* C1: in every returned result, the 16 cells of every card are pairwise
\* distinct and each lies in [min_num, max_num].
C1_CellsDistinctInRange ==
    Done =>
        \A c \in 1..Len(result.cards) :
            LET cs == CellSeq(result.cards[c])
            IN  /\ \A p, q \in 1..16 : p # q => cs[p] # cs[q]
                /\ \A p \in 1..16 : min_num <= cs[p] /\ cs[p] <= max_num

(* ---- C2 ---- *)
\* C2: in every successful result, two distinct cards have no canonical line
\* (the sorted values of a row, a column or a diagonal) in common.
C2_LinesDisjoint ==
    (Done /\ result.success) =>
        \A i, j \in 1..Len(result.cards) :
            i < j => CanonLines(result.cards[i]) \cap CanonLines(result.cards[j]) = {}

\* a successful result with at least two cards
C2_Witness == Done /\ result.success /\ Len(result.cards) >= 2

(* ---- C3 ---- *)
\* C3: in every successful result, the counts of number_distribution add up
\* to 16 * num_cards.
C3_SumOfCounts ==
    (Done /\ result.success) => SumSeq(ResultCounts) = 16 * num_cards

\* a successful result of two cards
C3_Witness ==
    Done /\ result.success /\ num_cards = 2 /\ Len(result.number_distribution) > 0

(* ---- C4 ---- *)
\* C4: when max_num < min_num, or [min_num, max_num] holds fewer than 16
\* numbers, the core generator is never entered and the result returned is
\* unsuccessful, with no cards, no distribution and the message of the case.
C4_InvalidRangeRejected ==
    (max_num < min_num \/ RangeSize < 16) =>
        /\ ~core_ran
        /\ pc \in {"start", "done"}
        /\ Done =>
            /\ result.success = FALSE
            /\ result.cards = <<>>
            /\ result.number_distribution = <<>>
            /\ result.message =
                 IF max_num < min_num
                 THEN "Maximum number must be greater than or equal to minimum number."
                 ELSE "Number range must be at least 16 to fill a 4x4 card."

\* a rejection of a range of 1 to 15 numbers
C4_Witness == Done /\ max_num >= min_num /\ RangeSize < 16 /\ ~result.success

(* ---- C5 ---- *)
\* C5: for num_cards = 1 and a range of exactly 16 numbers the result is
\* successful, holds exactly 1 card, and every count of the distribution is 1.
C5_OneCardUsesEveryNumberOnce ==
    (Done /\ num_cards = 1 /\ max_num >= min_num /\ RangeSize = 16) =>
        /\ result.success
        /\ Len(result.cards) = 1
        /\ Len(result.number_distribution) = 16
        /\ \A i \in 1..Len(result.number_distribution) : result.number_distribution[i][2] = 1

(* ---- C6 ---- *)
\* C6: generate always terminates: it returns a result, having run at most
\* max_attempts attempts with at most MAX_CARD_ATTEMPTS tries per slot; when no
\* attempt could complete it returns success = false.
C6_Terminates ==
    /\ <>Done
    /\ [](attempt <= MaxAttempts /\ card_attempts <= MaxCardAttempts)
    /\ []((Done /\ succeeded = 0) => ~result.success)

\* every attempt of the budget was run and failed
C6_Witness ==
    Done /\ core_ran /\ attempt = MaxAttempts /\ succeeded = 0 /\ ~result.success

(* ---- C7 ---- *)
\* C7: when no attempt completes all slots the result is unsuccessful, with
\* no cards, no distribution and the failure message; every result returned
\* has either no cards and success = false, or all num_cards cards and
\* success = true.
C7_NoPartialResult ==
    Done =>
        /\ (core_ran /\ succeeded = 0) =>
              result = [cards |-> <<>>, number_distribution |-> <<>>, success |-> FALSE,
                        message |-> "Failed to generate valid bingo cards. Try adjusting parameters."]
        /\ \/ ~result.success /\ result.cards = <<>> /\ result.number_distribution = <<>>
           \/ result.success /\ Len(result.cards) = num_cards

\* the search was exhausted for a request of two cards
C7_Witness ==
    Done /\ core_ran /\ num_cards = 2 /\ result.message =
        "Failed to generate valid bingo cards. Try adjusting parameters."

(* ---- C8 ---- *)
\* C8: the result is successful exactly when some attempt completed all
\* slots, and then its cards and counts are those of one such attempt, of the
\* lowest variance among the attempts that completed (the first of them).
C8_BestAttemptReturned ==
    Done =>
        /\ result.success <=> succeeded > 0
        /\ result.success =>
              /\ lowest.some
              /\ result.cards = lowest.cards
              /\ ResultCounts = lowest.counts

\* two attempts completed, none of them good enough to stop the search, and
\* the one returned holds a number on 15 or more cells
C8_Witness ==
    /\ Done /\ result.success /\ succeeded >= 2
    /\ \E n \in 1..Len(ResultCounts) : ResultCounts[n] >= 15

(* ---- C9 ---- *)
\* C9: a successful result holds exactly num_cards cards, with the ids
\* 1, 2, ..., num_cards in this order.
C9_CardIds ==
    (Done /\ result.success) =>
        /\ Len(result.cards) = num_cards
        /\ \A i \in 1..Len(result.cards) : result.cards[i].id = i

\* a successful result of two cards
C9_Witness == Done /\ result.success /\ Len(result.cards) = 2 /\ num_cards = 2

(* ---- C10 ---- *)
\* C10: in a successful result number_distribution has one entry for each
\* number of [min_num, max_num], in ascending order, and the count of n is
\* the number of cells of the returned cards that hold n.
C10_DistributionOfCells ==
    (Done /\ result.success) =>
        /\ Len(result.number_distribution) = RangeSize
        /\ \A i \in 1..Len(result.number_distribution) :
              /\ result.number_distribution[i][1] = min_num + i - 1
              /\ result.number_distribution[i][2] = CellsHolding(min_num + i - 1)

\* a successful result over the 18 numbers 2..19 with cards in it, one
\* number being on no card
C10_Witness ==
    /\ Done /\ result.success /\ min_num = 2 /\ RangeSize = 18 /\ Len(result.cards) >= 1
    /\ \E i \in 1..Len(result.number_distribution) : result.number_distribution[i][2] = 0

(* ---- the line extractor, step by step ---- *)
\* coreVars without pc
coreVarsButPc == <<num_cards, min_num, max_num, attempt, cards, used_lines,
                   number_counts, success, card_id, card_found, card_attempts,
                   best_result, best_variance, result, succeeded, lowest, core_ran>>

\* the variables of generate_cards and generate_bingo_cards that Spec follows
coreVars == <<num_cards, min_num, max_num, pc, attempt, cards, used_lines,
              number_counts, success, card_id, card_found, card_attempts,
              best_result, best_variance, result, succeeded, lowest, core_ran>>

\* bounds of the grids handed to get_winning_lines: the cell at position p
\* (row-major, 1..16) holds ((mul * p + off) % m) + 1
MaxMul == 5
MaxOff == 3
Moduli == {2, 11, 16, 23}

GridOf(mul, off, m) == Grid([p \in 1..16 |-> ((mul * p + off) % m) + 1])

\* everything but the_card, the_lines, used_lines and pc is at rest
LineInit ==
    /\ num_cards = 0 /\ min_num = 1 /\ max_num = 24
    /\ pc = "lines_start"
    /\ attempt = 0 /\ cards = <<>> /\ used_lines = {} /\ number_counts = <<>>
    /\ success = TRUE /\ card_id = 0 /\ card_found = FALSE /\ card_attempts = 0
    /\ best_result = None /\ best_variance = F64_MAX /\ result = NoResult
    /\ succeeded = 0 /\ lowest = None /\ core_ran = FALSE
    /\ try_selected = <<>> /\ try_counts = <<>> /\ try_draws = 0 /\ try_rnd = <<0, 0>>
    /\ range = 0 /\ total_cells = 0 /\ arith = "ok"
    /\ the_lines = <<>>
    /\ \E mul \in 1..MaxMul, off \in 0..MaxOff, m \in Moduli : the_card = GridOf(mul, off, m)

\* line 141
ExtractLines ==
    /\ pc = "lines_start"
    /\ the_lines' = get_winning_lines(the_card)
    /\ pc' = "lines_done"
    /\ UNCHANGED <<num_cards, min_num, max_num, attempt, cards, used_lines,
                   number_counts, success, card_id, card_found, card_attempts,
                   best_result, best_variance, result, succeeded, lowest, core_ran>>
    /\ UNCHANGED <<try_selected, try_counts, try_draws, try_rnd, the_card, range,
                   total_cells, arith>>

\* lines 154-156
InsertKeys ==
    /\ pc = "lines_done"
    /\ used_lines' = used_lines \cup KeysOf(the_lines)
    /\ pc' = "keys_done"
    /\ UNCHANGED <<num_cards, min_num, max_num, attempt, cards,
                   number_counts, success, card_id, card_found, card_attempts,
                   best_result, best_variance, result, succeeded, lowest, core_ran>>
    /\ UNCHANGED stepVars

LineNext ==
    \/ ExtractLines
    \/ InsertKeys

LineSpec == LineInit /\ [][LineNext]_vars

\* the positions (row-major, 1..16) of the 10 lines, in the order of the result
LineOrder ==
    << <<1, 2, 3, 4>>, <<5, 6, 7, 8>>, <<9, 10, 11, 12>>, <<13, 14, 15, 16>>,
       <<1, 5, 9, 13>>, <<2, 6, 10, 14>>, <<3, 7, 11, 15>>, <<4, 8, 12, 16>>,
       <<1, 6, 11, 16>>, <<4, 7, 10, 13>> >>

\* the cells of line k of a grid, in the order of the grid
RawLine(grid, k) ==
    [j \in 1..4 |-> grid[((LineOrder[k][j] - 1) \div 4) + 1][((LineOrder[k][j] - 1) % 4) + 1]]

\* how often v occurs in a sequence
CountIn(s, v) == Cardinality({i \in 1..Len(s) : s[i] = v})

\* the same values, each as often
SameBag(s, t) ==
    /\ Len(s) = Len(t)
    /\ \A i \in 1..Len(s) : CountIn(s, s[i]) = CountIn(t, s[i])

Perms4 == {q \in [1..4 -> 1..4] : \A i, j \in 1..4 : i # j => q[i] # q[j]}

(* ---- C11 ---- *)
\* C11: the canonical key of a line (sorted ascending, then line_to_key) is
\* the same for every permutation of its 4 values, and two lines of the grid
\* with the same values, each as often, have the same key; the keys inserted
\* are these keys.
C11_KeyPermutationInvariant ==
    pc = "keys_done" =>
        /\ \A k \in 1..10 : \A q \in Perms4 :
              /\ line_to_key(SortAsc([j \in 1..4 |-> RawLine(the_card, k)[q[j]]]))
                   = line_to_key(the_lines[k])
              /\ line_to_key(the_lines[k]) \in used_lines
        /\ \A k1, k2 \in 1..10 :
              SameBag(RawLine(the_card, k1), RawLine(the_card, k2))
                  => line_to_key(the_lines[k1]) = line_to_key(the_lines[k2])

\* two lines of the grid hold the same values in another order
C11_Witness ==
    /\ pc = "keys_done"
    /\ \E k1, k2 \in 1..10 :
          /\ k1 # k2
          /\ RawLine(the_card, k1) # RawLine(the_card, k2)
          /\ SameBag(RawLine(the_card, k1), RawLine(the_card, k2))
          /\ Cardinality({RawLine(the_card, k1)[j] : j \in 1..4}) >= 2

(* ---- C12 ---- *)
\* C12: get_winning_lines returns exactly 10 lines, the 4 rows, the 4 columns,
\* the main diagonal and the anti-diagonal in this order; each holds 4 values
\* in ascending order and is a permutation of the cells of its row, column or
\* diagonal.
C12_TenSortedLines ==
    pc \in {"lines_done", "keys_done"} =>
        /\ Len(the_lines) = 10
        /\ \A k \in 1..Len(the_lines) :
              /\ Len(the_lines[k]) = 4
              /\ \A j \in 1..3 : the_lines[k][j] <= the_lines[k][j + 1]
              /\ SameBag(the_lines[k], RawLine(the_card, k))

\* the lines of a grid whose two diagonals hold different values, out of order
C12_Witness ==
    /\ pc = "lines_done"
    /\ ~SameBag(RawLine(the_card, 9), RawLine(the_card, 10))
    /\ \E j \in 1..3 : RawLine(the_card, 10)[j] > RawLine(the_card, 10)[j + 1]

(* ---- C13 ---- *)
\* C13: as soon as an attempt succeeds with a variance below 2.0 no further
\* attempt is run and the result is that attempt's cards and counts; an
\* attempt that fails or has a variance of 2.0 or more is followed by the next
\* attempt, and without an early stop the search ends only after MaxAttempts
\* attempts.
C13_EarlyStop ==
    [][ /\ (pc = "attempt_end" /\ success
              /\ Deviation(number_counts)
                   < 2 * Len(number_counts) * Len(number_counts) * Len(number_counts))
           => /\ pc' = "return"
              /\ attempt' = attempt
              /\ best_result' = Some(cards, number_counts)
        /\ pc = "return"
           => /\ pc' = "done"
              /\ result'.success
              /\ result'.cards = best_result.cards
              /\ result'.number_distribution
                   = [i \in 1..RangeSize |-> <<min_num + i - 1, best_result.counts[i]>>]
        /\ (pc = "attempt_end"
              /\ ~(success /\ Deviation(number_counts)
                     < 2 * Len(number_counts) * Len(number_counts) * Len(number_counts)))
           => /\ pc' = "attempt_loop"
              /\ attempt' = attempt + 1
        /\ (pc = "attempt_loop" /\ pc' = "done") => attempt = MaxAttempts
        /\ (pc = "attempt_loop" /\ attempt < MaxAttempts) => pc' = "slot_loop"
      ]_vars

\* the search has stopped at its first attempt, with attempts to spare, after
\* cards were made
C13_Witness ==
    /\ pc = "return"
    /\ attempt = 0
    /\ attempt + 1 < MaxAttempts
    /\ best_result.some
    /\ Len(best_result.cards) = MaxCards

(* ---- C14 ---- *)
\* C14: a slot that finds no valid card within its budget of tries fails the
\* whole attempt at that slot: success becomes false, no later slot is begun,
\* and the cards and counts of the failed attempt are neither compared with
\* nor stored as the best result.
C14_SlotFailureFailsAttempt ==
    /\ [](~success => pc = "attempt_end")
    /\ [][ /\ (pc = "try_loop" /\ ~card_found /\ card_attempts >= MaxCardAttempts)
              => /\ pc' = "attempt_end"
                 /\ ~success'
                 /\ card_id' = card_id
                 /\ cards' = cards
           /\ (pc = "attempt_end" /\ ~success)
              => /\ pc' = "attempt_loop"
                 /\ attempt' = attempt + 1
                 /\ best_result' = best_result
                 /\ best_variance' = best_variance
                 /\ succeeded' = succeeded
                 /\ lowest' = lowest
           /\ pc' = "try_loop" => success'
         ]_vars

\* an attempt has failed at its second slot, holding one card, while an
\* earlier attempt is stored as the best
C14_Witness ==
    /\ pc = "attempt_end"
    /\ ~success
    /\ Len(cards) >= 1
    /\ card_id = Len(cards)
    /\ best_result.some

(* ---- C15 ---- *)
\* the cards of the current attempt that hold n in some cell
CardsHolding(n) == {k \in 1..Len(cards) : \E p \in 1..16 : CellSeq(cards[k])[p] = n}

\* the line keys of the cards of the current attempt
KeysOfCards == UNION {{line_to_key(l) : l \in CanonLines(cards[k])} : k \in 1..Len(cards)}

\* C15: at every point of an attempt, used_lines is exactly the set of line
\* keys of the cards accepted so far in the attempt, and number_counts[n] is
\* exactly the number of accepted cards of the attempt that contain n.
C15_UsedLinesAndCounts ==
    pc \in {"slot_loop", "try_loop", "attempt_end"} =>
        /\ used_lines = KeysOfCards
        /\ Len(number_counts) = RangeSize
        /\ \A i \in 1..RangeSize :
              number_counts[i] = Cardinality(CardsHolding(min_num + i - 1))

(* ---- the weighted selection, draw by draw ---- *)
\* the state at the top of the while loop of line 89, before a try: no card
\* accepted yet in the attempt, or (for a second slot) one card accepted
DrawInit ==
    /\ num_cards \in 1..MaxCards
    /\ min_num \in MinNums
    /\ max_num \in MaxNums
    /\ ~MaxBelowMin(min_num, max_num)
    /\ ~RangeTooSmall(min_num, max_num)
    /\ \/ /\ card_id = 0
          /\ cards = <<>>
          /\ used_lines = {}
          /\ number_counts = [i \in 1..num_range |-> 0]
       \/ /\ num_cards >= 2
          /\ card_id = 1
          /\ \E sc \in 1..NumScripts :
             \E drawn \in {SelectNumbers(<<>>, [i \in 1..num_range |-> 0], 0, numbers,
                                          target_per_number, Scripts[sc][1], Scripts[sc][2])} :
             \E shuffled \in {Shuffle(drawn, Scripts[sc][3])} :
                /\ cards = << [id |-> CardIdOf(0), cells |-> Grid(shuffled)] >>
                /\ used_lines = KeysOf(get_winning_lines(Grid(shuffled)))
                /\ number_counts = AddCounts([i \in 1..num_range |-> 0], shuffled, min_num)
    /\ pc = "select"
    /\ attempt = 0 /\ success = TRUE /\ card_found = FALSE /\ card_attempts = 1
    /\ best_result = None /\ best_variance = F64_MAX /\ result = NoResult
    /\ succeeded = 0 /\ lowest = None /\ core_ran = TRUE
    /\ try_selected = <<>>
    /\ try_counts = number_counts
    /\ try_draws = 0
    /\ try_rnd \in DrawsOfScripts
    /\ the_card = <<>> /\ the_lines = <<>>
    /\ range = 0 /\ total_cells = 0 /\ arith = "ok"

\* lines 96-124: one pass of the selection loop, one weighted draw
Draw ==
    /\ pc = "select"
    /\ Len(try_selected) < CARD_CELLS
    /\ \E nx \in {DrawStep(try_selected, try_counts, try_draws, numbers,
                           target_per_number, try_rnd[1], try_rnd[2])} :
          /\ try_selected' = nx[1]
          /\ try_counts' = nx[2]
          /\ try_draws' = nx[3]
          /\ pc' = IF nx[4] THEN "abandoned" ELSE "select"
    /\ UNCHANGED <<num_cards, min_num, max_num, attempt, cards, used_lines,
                   number_counts, success, card_id, card_found, card_attempts,
                   best_result, best_variance, result, succeeded, lowest, core_ran>>
    /\ UNCHANGED <<try_rnd, the_card, the_lines, range, total_cells, arith>>

\* line 96: the loop ends with 16 numbers selected
SelectionDone ==
    /\ pc = "select"
    /\ Len(try_selected) >= CARD_CELLS
    /\ pc' = "selected"
    /\ UNCHANGED coreVarsButPc
    /\ UNCHANGED stepVars

DrawNext ==
    \/ Draw
    \/ SelectionDone

DrawSpec == DrawInit /\ [][DrawNext]_vars

\* the numbers chosen so far on the current card
Chosen == {try_selected[k] : k \in 1..Len(try_selected)}

(* ---- C16 ---- *)
\* C16: in every draw the weight of a number not yet chosen on the current
\* card is max(0.1, (target - c) + 10.0), c its count in number_counts and
\* target = floor(16 * num_cards / range size); the weight of a number already
\* chosen on the card is 0; the increments of temp_counts never change a
\* weight relative to number_counts.  Weights are in tenths.
C16_Weights ==
    pc = "select" =>
        LET w == current_weights(try_counts, try_selected, numbers, target_per_number)
            target == (16 * num_cards) \div RangeSize
        IN  /\ Len(w) = RangeSize
            /\ \A i \in 1..RangeSize :
                  /\ (min_num + i - 1) \in Chosen => w[i] = 0
                  /\ (min_num + i - 1) \notin Chosen =>
                        /\ try_counts[i] = number_counts[i]
                        /\ w[i] = (IF (target - number_counts[i]) * 10 + 100 >= 1
                                   THEN (target - number_counts[i]) * 10 + 100
                                   ELSE 1)

\* a draw with numbers already chosen, an unchosen number at the floor of 0.1
\* and an unchosen number above it
C16_Witness ==
    /\ pc = "select"
    /\ Len(try_selected) >= 2
    /\ Len(try_selected) < CARD_CELLS
    /\ \E i \in 1..RangeSize :
          /\ (min_num + i - 1) \notin Chosen
          /\ (target_per_number - number_counts[i]) * 10 + 100 < 1
    /\ \E i \in 1..RangeSize :
          /\ (min_num + i - 1) \notin Chosen
          /\ number_counts[i] = 0

(* ---- C18 ---- *)
\* the index the scan of lines 117-124 pushes for the fraction k / RandDen
\* under the weights of the current draw; 0 if it pushes none
Pushed(k) ==
    LET w == current_weights(try_counts, try_selected, numbers, target_per_number)
    IN  Scan(w, k * SumSeq(w), 1)

\* C18: the cumulative-weight scan of a draw never selects a zero-weight
\* number: for every threshold in [0, total_weight), 0 included, and every
\* weight vector of a draw, also with the first candidates already chosen on
\* the card, the index pushed has a strictly positive weight.
C18_ScanSkipsZeroWeight ==
    (pc = "select" /\ Len(try_selected) < CARD_CELLS) =>
        \A k \in 0..(RandDen - 1) :
            Pushed(k) # 0 =>
                current_weights(try_counts, try_selected, numbers,
                                target_per_number)[Pushed(k)] > 0

(* ---- the integer arithmetic of generate_cards and of the core ---- *)
\* u32 and usize, scaled down: a u32 has U32Bits bits, a usize UsizeBits bits
U32Bits == 5
UsizeBits == 6
U32_MAX == 2^U32Bits - 1
USIZE_MAX == 2^UsizeBits - 1

\* num_cards: small counts and the counts around the overflow of 16 * num_cards
ArithCards == {0, 1, USIZE_MAX \div CARD_CELLS, (USIZE_MAX \div CARD_CELLS) + 1, USIZE_MAX}

\* every input of generate_cards within the widths
ArithInit ==
    /\ num_cards \in ArithCards
    /\ min_num \in 0..U32_MAX
    /\ max_num \in 0..U32_MAX
    /\ pc = "start"
    /\ attempt = 0 /\ cards = <<>> /\ used_lines = {} /\ number_counts = <<>>
    /\ success = TRUE /\ card_id = 0 /\ card_found = FALSE /\ card_attempts = 0
    /\ best_result = None /\ best_variance = F64_MAX /\ result = NoResult
    /\ succeeded = 0 /\ lowest = None /\ core_ran = FALSE
    /\ StepVarsIdle

\* line 241: max_num - min_num + 1 in u32.  A sum above u32::MAX panics in a
\* build with overflow checks and wraps in a build without them.
ComputeRange ==
    /\ pc = "start"
    /\ ~MaxBelowMin(min_num, max_num)
    /\ IF (max_num - min_num) + 1 > U32_MAX
       THEN \/ /\ arith' = "panicked"
               /\ pc' = "done"
               /\ range' = range
            \/ /\ arith' = "wrapped"
               /\ pc' = "range"
               /\ range' = ((max_num - min_num) + 1) % (2^U32Bits)
       ELSE /\ arith' = arith
            /\ pc' = "range"
            /\ range' = (max_num - min_num) + 1
    /\ UNCHANGED coreVarsButPc
    /\ UNCHANGED <<try_selected, try_counts, try_draws, try_rnd, the_card, the_lines,
                   total_cells>>

\* lines 242-249
RejectSmallRange ==
    /\ pc = "range"
    /\ range < MIN_RANGE
    /\ result' = FailureResult(MsgRange)
    /\ pc' = "done"
    /\ UNCHANGED <<num_cards, min_num, max_num, attempt, cards, used_lines,
                   number_counts, success, card_id, card_found, card_attempts,
                   best_result, best_variance, succeeded, lowest, core_ran>>
    /\ UNCHANGED stepVars

\* lines 251 and 66-71: the core is entered; 16 * num_cards in usize
ComputeCells ==
    /\ pc = "range"
    /\ range >= MIN_RANGE
    /\ core_ran' = TRUE
    /\ IF CARD_CELLS * num_cards > USIZE_MAX
       THEN \/ /\ arith' = "panicked"
               /\ pc' = "done"
               /\ total_cells' = total_cells
            \/ /\ arith' = "wrapped"
               /\ pc' = "cells"
               /\ total_cells' = (CARD_CELLS * num_cards) % (2^UsizeBits)
       ELSE /\ arith' = arith
            /\ pc' = "cells"
            /\ total_cells' = CARD_CELLS * num_cards
    /\ UNCHANGED <<num_cards, min_num, max_num, attempt, cards, used_lines,
                   number_counts, success, card_id, card_found, card_attempts,
                   best_result, best_variance, result, succeeded, lowest>>
    /\ UNCHANGED <<try_selected, try_counts, try_draws, try_rnd, the_card, the_lines,
                   range>>

\* line 72: total_cells / num_range; a zero divisor panics in every build
Divide ==
    /\ pc = "cells"
    /\ IF num_range = 0
       THEN arith' = "panicked" /\ pc' = "done"
       ELSE arith' = arith /\ pc' = "attempts"
    /\ UNCHANGED coreVarsButPc
    /\ UNCHANGED <<try_selected, try_counts, try_draws, try_rnd, the_card, the_lines,
                   range, total_cells>>

ArithNext ==
    \/ RejectMaxLtMin
    \/ ComputeRange
    \/ RejectSmallRange
    \/ ComputeCells
    \/ Divide

ArithSpec == ArithInit /\ [][ArithNext]_vars

(* ---- C17 ---- *)
\* C17: no input of generate_cards is fatal: for every num_cards, min_num and
\* max_num within the integer widths, min_num = 0 with max_num at the u32
\* maximum and very large num_cards included, max_num - min_num + 1,
\* 16 * num_cards and the division by the range size neither overflow nor
\* divide by zero, and a call that has returned has returned a well-formed
\* result.
C17_NoInputFatal ==
    /\ arith = "ok"
    /\ pc \in {"range", "cells", "attempts"} => range = (max_num - min_num) + 1
    /\ pc \in {"cells", "attempts"} => total_cells = CARD_CELLS * num_cards
    /\ pc = "done" => result.message \in {MsgMaxLtMin, MsgRange}

(* ---- generate_bingo_cards on its own ---- *)
\* generate_bingo_cards entered with any range of at least one number, also
\* one that generate_cards would have rejected (lines 60-76)
CoreInit ==
    /\ num_cards \in 0..MaxCards
    /\ min_num \in MinNums
    /\ max_num \in MaxNums
    /\ min_num <= max_num
    /\ pc = "attempt_loop"
    /\ attempt = 0
    /\ cards = <<>>
    /\ used_lines = {}
    /\ number_counts = <<>>
    /\ success = TRUE
    /\ card_id = 0
    /\ card_found = FALSE
    /\ card_attempts = 0
    /\ best_result = None
    /\ best_variance = F64_MAX
    /\ result = NoResult
    /\ succeeded = 0
    /\ lowest = None
    /\ core_ran = TRUE
    /\ StepVarsIdle

CoreNext ==
    \/ BeginAttempt
    \/ BeginSlot
    \/ CardTry
    \/ SlotFound
    \/ SlotFailed
    \/ SlotsDone
    \/ AttemptSucceeded
    \/ AttemptFailed
    \/ ReturnResult

CoreSpec == CoreInit /\ [][CoreNext]_vars

\* the numbers a try starting in this state selects, for each pair of fractions
DrawnNow ==
    { SelectNumbers(<<>>, number_counts, 0, numbers, target_per_number, d[1], d[2])
      : d \in DrawsOfScripts }

(* ---- C19 ---- *)
\* C19: with at least 16 numbers in the range every card-construction try
\* draws exactly 16 numbers (the degenerate-weight branch is not taken), so
\* that a try fails only through a line conflict; when generate_bingo_cards
\* runs with fewer than 16 numbers every try is abandoned without a change of
\* cards, used_lines or number_counts, and the result has success = false.
C19_DegenerateBranch ==
    /\ (pc = "try_loop" /\ RangeSize >= CARD_CELLS)
          => \A drawn \in DrawnNow : Len(drawn) = CARD_CELLS
    /\ (pc \in {"slot_loop", "try_loop", "attempt_end"} /\ RangeSize < CARD_CELLS)
          => /\ cards = <<>>
             /\ used_lines = {}
             /\ number_counts = [i \in 1..RangeSize |-> 0]
    /\ (Done /\ RangeSize < CARD_CELLS) => ~result.success

(* ---- C20 ---- *)
\* C20: for num_cards = 0 and a range of at least 16 numbers generate_cards
\* stops after its first attempt and returns success = true with no card and
\* a distribution of one entry with count 0 for every number of the range.
C20_ZeroCards ==
    (Done /\ num_cards = 0 /\ min_num <= max_num /\ RangeSize >= 16) =>
        /\ result.success
        /\ result.cards = <<>>
        /\ result.number_distribution = [i \in 1..RangeSize |-> <<min_num + i - 1, 0>>]
        /\ result.message = MsgSuccess(0)
        /\ attempt = 0
        /\ succeeded = 1

\* a call for no cards over the 18 numbers 2..19 has returned
C20_Witness ==
    /\ Done
    /\ num_cards = 0
    /\ core_ran
    /\ RangeSize = 18
    /\ Len(result.number_distribution) = 18

====
